---------------------------- MODULE Spec2Model ----------------------------
(***************************************************************************)
(* Government-schemes chatbot backend: the RAG pipeline of rag.py          *)
(* (generate_response), the SQLite store of database.py and the request    *)
(* handlers of main.py.                                                    *)
(*                                                                         *)
(* Text is modelled by TLA+ strings (concatenation \o, Len, SubSeq).       *)
(* Distances are modelled in hundredths: 150 stands for 1.5.               *)
(***************************************************************************)
EXTENDS Integers, Sequences, FiniteSets, TLC

VARIABLES
    sessions,   \* table sessions: id -> [title, created_at]
    messages,   \* table messages, in rowid order: [id, session_id, role, content, timestamp]
    nextId,     \* AUTOINCREMENT counter of messages.id
    now,        \* CURRENT_TIMESTAMP, in seconds
    issued,     \* uuid4 values handed out so far
    handled,    \* observer: chat requests handled so far, per session id
    last,       \* observer: the last request handled by main.py
    req,        \* the arguments and external outcomes of the last generate_response call
    out         \* what that call did

vars == <<sessions, messages, nextId, now, issued, handled, last, req, out>>

---------------------------------------------------------------------------
(* Bounds of the model *)

MaxHist == 7        \* longest chat_history handed to generate_response in SpecGen
MaxDocs == 3        \* most documents an index result carries (n_results is 10)
MaxSessions == 2    \* uuid4 values available to create_session
MaxChats == 2       \* chat requests that store both their messages
MaxClock == 1       \* seconds the clock can advance

(* Constants of the program *)

Cutoff == 150       \* distance < 1.5
QueryTurns == 4     \* chat_history[-4:]
QueryUsers == 2     \* recent_user_queries[-2:]
Window == 6         \* chat_history[-6:]
TitleLen == 50      \* request.query[:50]

---------------------------------------------------------------------------
(* Python helpers *)

Min(a, b) == IF a < b THEN a ELSE b

Max(a, b) == IF a > b THEN a ELSE b

\* s[-n:]
LastN(s, n) == SubSeq(s, Max(1, Len(s) - n + 1), Len(s))

\* sep.join(parts)
RECURSIVE Join(_, _)
Join(parts, sep) ==
    IF Len(parts) = 0 THEN ""
    ELSE IF Len(parts) = 1 THEN parts[1]
    ELSE Join(SubSeq(parts, 1, Len(parts) - 1), sep) \o sep \o parts[Len(parts)]

\* f"{x:.2f}" of x = r / 100
Fmt2(r) ==
    LET a == IF r < 0 THEN 0 - r ELSE r
    IN  (IF r < 0 THEN "-" ELSE "")
        \o ToString(a \div 100) \o "."
        \o ToString((a % 100) \div 10) \o ToString(a % 10)

\* bool(chat_history): None and the empty list are falsy
Truthy(chat_history) == chat_history.given /\ Len(chat_history.turns) > 0

---------------------------------------------------------------------------
(* rag.py: generate_response *)

Sentinel == "No highly relevant schemes found in the database for this query."

ApologyPrefix == "I apologize, but I encountered an error while processing your request: "

system_prompt ==
    "You are a helpful assistant specializing in Indian government schemes, particularly for Tamil Nadu and all-India schemes. \n"
    \o "Your role is to provide accurate, detailed information about government schemes based ONLY on the context provided below.\n"
    \o "\n"
    \o "CRITICAL RULES:\n"
    \o "1. ONLY use information from the context provided below - DO NOT make up or add information\n"
    \o "2. If the answer is not in the context, clearly state \"I don't have information about this in the provided schemes database\"\n"
    \o "3. Be specific and cite exact scheme names from the context\n"
    \o "4. When providing details, copy them accurately from the context (eligibility, benefits, application process)\n"
    \o "5. Format your response in clear, well-structured markdown with tables where appropriate\n"
    \o "6. If multiple relevant schemes are found, compare them to help the user choose\n"
    \o "7. MAINTAIN CONVERSATION CONTEXT: If the user asks a follow-up question (like \"where do I apply?\" or \"what documents needed?\"), answer about the SAME schemes discussed in the previous messages, NOT about different schemes\n"
    \o "\n"
    \o "Context from relevant government schemes:\n"

FollowUpNote ==
    "\n\nNOTE: This is a follow-up question in an ongoing conversation. Make sure to answer about the schemes already being discussed, not new unrelated schemes."

\* [msg["content"] for msg in turns if msg["role"] == "user"]
RECURSIVE UserContents(_)
UserContents(turns) ==
    IF Len(turns) = 0 THEN <<>>
    ELSE LET rest == UserContents(SubSeq(turns, 1, Len(turns) - 1))
             msg  == turns[Len(turns)]
         IN  IF msg.role = "user" THEN Append(rest, msg.content) ELSE rest

SearchQueryFirstTwo(query, chat_history) ==
    IF Truthy(chat_history)
    THEN LET recent_user_queries == UserContents(LastN(chat_history.turns, QueryTurns))
         IN  IF Len(recent_user_queries) > 0
             THEN Join(SubSeq(recent_user_queries, 1, Min(QueryUsers, Len(recent_user_queries))), " ")
                  \o " " \o query
             ELSE query
    ELSE query

\* rag.py 152-159
SearchQuery(query, chat_history) ==
    IF Truthy(chat_history)
    THEN LET recent_user_queries == UserContents(LastN(chat_history.turns, QueryTurns))
         IN  IF Len(recent_user_queries) > 0
             THEN Join(LastN(recent_user_queries, QueryUsers), " ") \o " " \o query
             ELSE query
    ELSE query

\* collection.query raises, or search_results[...] raises KeyError (rag.py 162, 167)
SearchRaises(search_results) ==
    \/ search_results.kind = "raise"
    \/ /\ search_results.kind = "dict"
       /\ search_results.keys # {}
       /\ \/ "documents" \notin search_results.keys
          \/ /\ Len(search_results.documents) > 0
             /\ "distances" \notin search_results.keys

SearchError(search_results) ==
    IF search_results.kind = "raise" THEN search_results.err
    ELSE IF "documents" \notin search_results.keys THEN "KeyError: 'documents'"
    ELSE "KeyError: 'distances'"

SchemeNumberZeroBased(i) == i

\* the header number of the match at enumerate index i (rag.py 176)
SchemeNumber(i) == i + 1

Block(i, doc, distance) ==
    "--- Relevant Scheme " \o ToString(SchemeNumber(i))
    \o " (Relevance: " \o Fmt2(100 - distance) \o ") ---\n" \o doc

KeepInclusive(distance) == distance <= Cutoff

\* if distance < 1.5 (rag.py 175)
Keep(distance) == distance < Cutoff

\* the loop of rag.py 173-176 over the first k pairs of zip(documents, distances)
RECURSIVE FilterBlocks(_, _, _)
FilterBlocks(documents, distances, k) ==
    IF k = 0 THEN <<>>
    ELSE LET rest == FilterBlocks(documents, distances, k - 1)
         IN  IF Keep(distances[k])
             THEN Append(rest, Block(k - 1, documents[k], distances[k]))
             ELSE rest

\* rag.py 166-176; search_results is a value for which SearchRaises is false
ContextParts(search_results) ==
    IF /\ search_results.kind = "dict"
       /\ search_results.keys # {}
       /\ Len(search_results.documents) > 0
       /\ Len(search_results.distances) > 0
    THEN LET documents == search_results.documents[1]
             distances == search_results.distances[1]
         IN  FilterBlocks(documents, distances, Min(Len(documents), Len(distances)))
    ELSE <<>>

ContextNoSentinel(context_parts) == Join(context_parts, "\n\n")

\* rag.py 179-182
Context(context_parts) ==
    IF Len(context_parts) = 0 THEN Sentinel ELSE Join(context_parts, "\n\n")

\* rag.py 186-206
FullPrompt(query, chat_history, context) ==
    system_prompt \o "\n\n" \o context \o "\n\n---\n\nUser Question: " \o query
    \o (IF Truthy(chat_history) THEN FollowUpNote ELSE "")
    \o "\n\nPlease answer based ONLY on the schemes provided in the context above."

GeminiRoleSwapped(role) == IF role = "user" THEN "model" ELSE "user"

\* rag.py 213
GeminiRole(role) == IF role = "user" THEN "user" ELSE "model"

HistoryWindowFour(chat_history) ==
    IF chat_history.given THEN LastN(chat_history.turns, QueryTurns) ELSE <<>>

\* chat_history[-6:] when chat_history is truthy (rag.py 211-212)
HistoryWindow(chat_history) ==
    IF chat_history.given THEN LastN(chat_history.turns, Window) ELSE <<>>

\* rag.py 209-217: the window in Gemini's format, then the prompt as the last entry
Messages(chat_history, full_prompt) ==
    LET w == HistoryWindow(chat_history)
    IN  [i \in 1..Len(w) |-> [role |-> GeminiRole(w[i].role), parts |-> <<w[i].content>>]]
        \o <<[role |-> "user", parts |-> <<full_prompt>>]>>

Apology(llm) == ApologyPrefix \o llm.err

CallGeminiNoCatch(msgs, full_prompt, llm) ==
    LET single == Len(msgs) = 1
        fails  == llm.failAt \in (IF single THEN {"call", "text"} ELSE {"start_chat", "call", "text"})
    IN  [calls   |-> IF single THEN <<"generate_content">>
                     ELSE IF llm.failAt = "start_chat" THEN <<"start_chat">>
                     ELSE <<"start_chat", "send_message">>,
         history |-> IF single THEN <<>> ELSE SubSeq(msgs, 1, Len(msgs) - 1),
         prompt  |-> IF ~single /\ llm.failAt = "start_chat" THEN "" ELSE full_prompt,
         raised  |-> fails,
         exc     |-> IF fails THEN llm.err ELSE "",
         result  |-> IF fails THEN "" ELSE llm.reply]

\* rag.py 220-231: the calls made on the Gemini client and the value returned.
\* llm.failAt names the step of the exchange that raises, if any.
CallGemini(msgs, full_prompt, llm) ==
    LET single == Len(msgs) = 1
        fails  == llm.failAt \in (IF single THEN {"call", "text"} ELSE {"start_chat", "call", "text"})
    IN  [calls   |-> IF single THEN <<"generate_content">>
                     ELSE IF llm.failAt = "start_chat" THEN <<"start_chat">>
                     ELSE <<"start_chat", "send_message">>,
         history |-> IF single THEN <<>> ELSE SubSeq(msgs, 1, Len(msgs) - 1),
         prompt  |-> IF ~single /\ llm.failAt = "start_chat" THEN "" ELSE full_prompt,
         raised  |-> FALSE,
         exc     |-> "",
         result  |-> IF fails THEN Apology(llm) ELSE llm.reply]

NoOut ==
    [phase |-> "idle", raised |-> FALSE, exc |-> "", search_query |-> "",
     context_parts |-> <<>>, context |-> "", full_prompt |-> "",
     calls |-> <<>>, history |-> <<>>, prompt |-> "", result |-> ""]

\* rag.py 149-231
generate_response(query, chat_history, search_results, llm) ==
    LET search_query == SearchQuery(query, chat_history)
    IN  IF SearchRaises(search_results)
        THEN [NoOut EXCEPT !.phase = "done", !.raised = TRUE,
                           !.exc = SearchError(search_results),
                           !.search_query = search_query,
                           !.calls = <<"query">>]
        ELSE LET context_parts == ContextParts(search_results)
                 context       == Context(context_parts)
                 full_prompt   == FullPrompt(query, chat_history, context)
                 g == CallGemini(Messages(chat_history, full_prompt), full_prompt, llm)
             IN  [phase |-> "done", raised |-> g.raised, exc |-> g.exc,
                  search_query |-> search_query,
                  context_parts |-> context_parts, context |-> context,
                  full_prompt |-> full_prompt,
                  calls |-> <<"query">> \o g.calls,
                  history |-> g.history, prompt |-> g.prompt, result |-> g.result]

---------------------------------------------------------------------------
(* The inputs of generate_response and the outcomes of its two external calls *)

Roles == {"user", "assistant"}

NoHistory == [given |-> FALSE, turns |-> <<>>]

\* a history of n turns with the roles r, the i-th turn saying "m<i>"
HistoryOf(n, r) ==
    [given |-> TRUE,
     turns |-> [i \in 1..n |-> [role |-> r[i], content |-> "m" \o ToString(i)]]]

Histories ==
    {NoHistory} \cup
    UNION {{HistoryOf(n, r) : r \in [1..n -> Roles]} : n \in 0..MaxHist}

Distances == {30, 150, 160}

DocText(i) == "Scheme Name: S" \o ToString(i) \o "\nDepartment: D" \o ToString(i)

ResultKeys == {"ids", "documents", "distances"}

\* what collection.query returns for one query text: one inner list per key
QueryResult(keys, documents, distances) ==
    [kind |-> "dict", keys |-> keys, documents |-> documents,
     distances |-> distances, err |-> ""]

WellFormedResults ==
    UNION {{QueryResult(ResultKeys, <<[i \in 1..n |-> DocText(i)]>>, <<d>>)
              : d \in [1..n -> Distances]} : n \in 0..MaxDocs}

MalformedResults ==
    { QueryResult({"ids"}, <<>>, <<>>),
      QueryResult({"ids", "distances"}, <<>>, <<<<30>>>>),
      QueryResult({"ids", "documents"}, <<<<DocText(1)>>>>, <<>>),
      QueryResult({}, <<>>, <<>>),
      [kind |-> "none", keys |-> {}, documents |-> <<>>, distances |-> <<>>, err |-> ""] }

IndexDown ==
    [kind |-> "raise", keys |-> {}, documents |-> <<>>, distances |-> <<>>,
     err |-> "index unreachable"]

SearchOutcomes == WellFormedResults \cup MalformedResults \cup {IndexDown}

LlmOutcomes ==
    {[failAt |-> f, reply |-> "Here are the schemes.", err |-> "504 Deadline Exceeded"]
       : f \in {"none", "start_chat", "call", "text"}}

NoLlm == [failAt |-> "none", reply |-> "", err |-> ""]

NoReq == [query |-> "", chat_history |-> NoHistory, search_results |-> IndexDown, llm |-> NoLlm]

NoLast == [kind |-> "none", session_id |-> "", n |-> 0, before |-> <<>>, completed |-> FALSE]

---------------------------------------------------------------------------
(* database.py *)

\* the values uuid4 can return, and an id no session was ever created with
Uuids == {"u" \o ToString(i) : i \in 1..MaxSessions}

GhostIds == {"ghost"}

AllIds == Uuids \cup GhostIds

\* database.py 16-41 (init_db) on a new file: both tables empty
StoreInit ==
    /\ sessions = [i \in {} |-> 0]
    /\ messages = << >>
    /\ nextId = 1
    /\ now = 0
    /\ issued = {}
    /\ handled = [i \in AllIds |-> 0]
    /\ last = NoLast

\* database.py 44-54: INSERT INTO sessions (id, title), created_at by default
create_session(tbl, session_id, title, ts) ==
    [i \in DOMAIN tbl \cup {session_id} |->
        IF i = session_id THEN [title |-> title, created_at |-> ts] ELSE tbl[i]]

\* database.py 80-88: INSERT INTO messages; no PRAGMA foreign_keys = ON is
\* issued on the connection (database.py 9-13), so SQLite does not enforce
\* the FOREIGN KEY clause and the row is inserted whatever session_id is
add_message(rows, id, session_id, role, content, ts) ==
    Append(rows, [id |-> id, session_id |-> session_id, role |-> role,
                  content |-> content, timestamp |-> ts])

\* database.py 91-99: UPDATE sessions SET title WHERE id = ?
update_session_title(tbl, session_id, title) ==
    [i \in DOMAIN tbl |-> IF i = session_id THEN [tbl[i] EXCEPT !.title = title] ELSE tbl[i]]

SessionRows(session_id) == SelectSeq(messages, LAMBDA m : m.session_id = session_id)

\* the orders ORDER BY timestamp ASC allows for the rows S: rows with equal
\* timestamps may come in any order
RECURSIVE Orderings(_, _)
Orderings(rows, S) ==
    IF S = {} THEN {<< >>}
    ELSE UNION {{<<rows[i]>> \o t : t \in Orderings(rows, S \ {i})}
                  : i \in {j \in S : \A k \in S : rows[j].timestamp <= rows[k].timestamp}}

\* database.py 68-77: the results SELECT ... WHERE session_id = ? ORDER BY
\* timestamp ASC may return
get_session_messages(session_id) ==
    Orderings(SessionRows(session_id), 1..Len(SessionRows(session_id)))

---------------------------------------------------------------------------
(* SpecGen: generate_response applied to every input and outcome *)


InitGen ==
    /\ StoreInit
    /\ \E h \in Histories, sr \in SearchOutcomes :
          req = [query |-> "pension for farmers", chat_history |-> h,
                 search_results |-> sr, llm |-> NoLlm]
    /\ out = NoOut

GenerateResponse ==
    /\ out.phase = "idle"
    /\ \E llm \in LlmOutcomes :
          /\ req' = [req EXCEPT !.llm = llm]
          /\ out' = generate_response(req.query, req.chat_history, req.search_results, llm)
    /\ UNCHANGED <<sessions, messages, nextId, now, issued, handled, last>>

NextGen == GenerateResponse

SpecGen == InitGen /\ [][NextGen]_vars

---------------------------------------------------------------------------
(* main.py *)

\* main.py 63
ChatHistory(history) ==
    [given |-> TRUE,
     turns |-> [i \in 1..Len(history) |->
                  [role |-> history[i].role, content |-> history[i].content]]]

\* main.py 77
Title(query) ==
    IF Len(query) > TitleLen THEN SubSeq(query, 1, TitleLen) \o "..." ELSE query

Queries ==
    {"pension for farmers",
     "which schemes give a monthly pension to small and marginal farmers?"}

\* the outcomes of the two external calls of one chat request: the index
\* down (the LLM is then never called), or a result and an LLM outcome
ChatOutcomes ==
    {<<IndexDown, NoLlm>>} \cup
    ({QueryResult(ResultKeys, <<<<DocText(1), DocText(2)>>>>, <<<<160, 30>>>>)}
        \X {l \in LlmOutcomes : l.failAt \in {"none", "call"}})

\* main.py 52-80: POST /api/chat. request_sid = "" stands for no session id.
\* The handler has no await: it runs to its end, or to the exception
\* generate_response raises, before another request is served.
Chat(request_sid, query, search_results, llm, dt) ==
    /\ nextId < 2 * MaxChats
    /\ now + dt <= MaxClock
    /\ request_sid = "" => issued # Uuids
    /\ LET fresh      == CHOOSE u \in Uuids : u \notin issued
           session_id == IF request_sid = "" THEN fresh ELSE request_sid
           tbl1       == IF request_sid = ""
                         THEN create_session(sessions, fresh, "New Chat", now)
                         ELSE sessions
       IN  \E history \in get_session_messages(session_id) :
             LET chat_history == ChatHistory(history)
                 rows1 == add_message(messages, nextId, session_id, "user", query, now)
                 r     == generate_response(query, chat_history, search_results, llm)
             IN  /\ issued' = IF request_sid = "" THEN issued \cup {fresh} ELSE issued
                 /\ req' = [query |-> query, chat_history |-> chat_history,
                            search_results |-> search_results, llm |-> llm]
                 /\ out' = r
                 /\ handled' = [handled EXCEPT ![session_id] = @ + 1]
                 /\ last' = [kind |-> "chat", session_id |-> session_id,
                             n |-> handled[session_id] + 1,
                             before |-> ChatHistory(SessionRows(session_id)).turns,
                             completed |-> ~r.raised]
                 /\ IF r.raised
                    THEN /\ messages' = rows1
                         /\ nextId' = nextId + 1
                         /\ now' = now
                         /\ sessions' = tbl1
                    ELSE /\ messages' = add_message(rows1, nextId + 1, session_id,
                                                    "assistant", r.result, now + dt)
                         /\ nextId' = nextId + 2
                         /\ now' = now + dt
                         /\ sessions' = IF Len(history) = 0
                                        THEN update_session_title(tbl1, session_id, Title(query))
                                        ELSE tbl1

ChatRequest ==
    \E request_sid \in {""} \cup issued \cup GhostIds, query \in Queries,
       o \in ChatOutcomes, dt \in {0, 1} :
        Chat(request_sid, query, o[1], o[2], dt)

\* main.py 83-91: POST /api/session
CreateSessionRequest ==
    /\ issued # Uuids
    /\ \E title \in {"New Chat"} :
         LET fresh == CHOOSE u \in Uuids : u \notin issued
         IN  /\ sessions' = create_session(sessions, fresh, title, now)
             /\ issued' = issued \cup {fresh}
             /\ last' = [NoLast EXCEPT !.kind = "create", !.session_id = fresh]
    /\ UNCHANGED <<messages, nextId, now, handled, req, out>>

\* main.py 108-112 and database.py 102-108: DELETE /api/session/{session_id}
DeleteSessionRequest ==
    \E session_id \in issued \cup GhostIds :
        /\ messages' = SelectSeq(messages, LAMBDA m : m.session_id # session_id)
        /\ sessions' = [i \in DOMAIN sessions \ {session_id} |-> sessions[i]]
        /\ handled' = [handled EXCEPT ![session_id] = 0]
        /\ last' = [NoLast EXCEPT !.kind = "delete", !.session_id = session_id]
        /\ UNCHANGED <<nextId, now, issued, req, out>>

\* a second passes: CURRENT_TIMESTAMP has a resolution of one second
Tick ==
    /\ now < MaxClock
    /\ now' = now + 1
    /\ UNCHANGED <<sessions, messages, nextId, issued, handled, last, req, out>>

Init ==
    /\ StoreInit
    /\ req = NoReq
    /\ out = NoOut

Next ==
    \/ ChatRequest
    \/ CreateSessionRequest
    \/ DeleteSessionRequest
    \/ Tick

Spec == Init /\ [][Next]_vars

---------------------------------------------------------------------------
(* Vocabulary of the properties *)

StartsWith(s, p) == Len(s) >= Len(p) /\ SubSeq(s, 1, Len(p)) = p

EndsWith(s, p) == Len(s) >= Len(p) /\ SubSeq(s, Len(s) - Len(p) + 1, Len(s)) = p

Contains(s, t) == \E k \in 1..(Len(s) - Len(t) + 1) : SubSeq(s, k, k + Len(t) - 1) = t

Done == out.phase = "done"

\* the index call raised, or its result lacks the documents or the distances entry
IndexFailure(sr) ==
    \/ sr.kind = "raise"
    \/ sr.kind = "dict" /\ ~({"documents", "distances"} \subseteq sr.keys)

\* the parallel lists the index returned (empty when it returned none)
ReturnedDocs(sr) ==
    IF sr.kind = "dict" /\ "documents" \in sr.keys /\ Len(sr.documents) > 0
    THEN sr.documents[1] ELSE <<>>

ReturnedDists(sr) ==
    IF sr.kind = "dict" /\ "distances" \in sr.keys /\ Len(sr.distances) > 0
    THEN sr.distances[1] ELSE <<>>

\* the positions, in increasing order, of the first k returned matches whose
\* distance is strictly below 1.5
RECURSIVE Survivors(_, _)
Survivors(dists, k) ==
    IF k = 0 THEN <<>>
    ELSE IF dists[k] < 150 THEN Append(Survivors(dists, k - 1), k)
    ELSE Survivors(dists, k - 1)

Surviving == 
    LET n == Min(Len(ReturnedDocs(req.search_results)), Len(ReturnedDists(req.search_results)))
    IN  Survivors(ReturnedDists(req.search_results), n)

\* the exchange with the LLM raised at some step
LlmRaised ==
    \/ req.llm.failAt \in {"call", "text"}
    \/ req.llm.failAt = "start_chat" /\ Len(out.calls) > 1 /\ out.calls[2] = "start_chat"

Count(calls, ops) == Cardinality({i \in DOMAIN calls : calls[i] \in ops})

HeaderOf(n, distance) ==
    "--- Relevant Scheme " \o ToString(n) \o " (Relevance: " \o Fmt2(100 - distance) \o ") ---"

---------------------------------------------------------------------------
(* Properties of generate_response, checked under SpecGen *)

\* C1: when the index call raises or its result lacks `documents` or
\* `distances`, generate_response does not raise: it goes on with the sentinel
\* context, still calls the LLM and returns a text answer.
C1_DegradesOnIndexFailure ==
    (Done /\ IndexFailure(req.search_results)) =>
        /\ ~out.raised
        /\ out.context = Sentinel
        /\ Count(out.calls, {"generate_content", "send_message", "start_chat"}) >= 1
        /\ (~LlmRaised => out.result = req.llm.reply)

\* C2: when retrieval succeeded and the LLM exchange raises at any step,
\* generate_response does not raise; it returns the apology prefix followed by
\* the error detail, and no LLM call is made twice.
C2_LlmErrorBecomesApology ==
    (Done /\ ~IndexFailure(req.search_results) /\ LlmRaised) =>
        /\ ~out.raised
        /\ StartsWith(out.result, "I apologize, but I encountered an error while processing your request:")
        /\ out.result = "I apologize, but I encountered an error while processing your request: " \o req.llm.err
        /\ Count(out.calls, {"generate_content", "send_message"}) <= 1
        /\ Count(out.calls, {"start_chat"}) <= 1

C2_Witness ==
    /\ Done
    /\ req.search_results \in WellFormedResults
    /\ Truthy(req.chat_history)
    /\ req.llm.failAt = "call"
    /\ out.calls = <<"query", "start_chat", "send_message">>
    /\ EndsWith(out.result, "504 Deadline Exceeded")

\* C3: the search query is the current query alone when the last 4 turns hold
\* no user turn; otherwise the contents of the at most 2 most recent user turns
\* among the last 4 turns, in order, joined by spaces, then a space and the query.
C3_SearchQuery ==
    Done =>
        LET h  == req.chat_history.turns
            l4 == SubSeq(h, Max(1, Len(h) - 3), Len(h))
            U  == {i \in 1..Len(l4) : l4[i].role = "user"}
            b  == CHOOSE i \in U : \A j \in U : j <= i
            a  == CHOOSE i \in U \ {b} : \A j \in U \ {b} : j <= i
        IN  out.search_query =
                IF U = {} THEN req.query
                ELSE IF Cardinality(U) = 1 THEN l4[b].content \o " " \o req.query
                ELSE l4[a].content \o " " \o l4[b].content \o " " \o req.query

\* user turns q1, q2, q3 interleaved with assistant turns: q2 q3 q4
C3_Witness ==
    /\ Done
    /\ req.chat_history =
         HistoryOf(6, <<"user", "assistant", "user", "assistant", "user", "assistant">>)
    /\ out.search_query = "m3 m5 pension for farmers"

\* C4: the documents in the context block are exactly the returned documents
\* whose distance is strictly below 1.5, in the order returned; a document at
\* distance 1.5 or more never appears in the context block.
C4_FilterKeepsBelowCutoff ==
    (Done /\ ~out.raised) =>
        LET D == ReturnedDocs(req.search_results)
            X == ReturnedDists(req.search_results)
            S == Surviving
        IN  /\ Len(out.context_parts) = Len(S)
            /\ \A j \in 1..Len(S) : EndsWith(out.context_parts[j], "---\n" \o D[S[j]])
            /\ \A i \in 1..Min(Len(D), Len(X)) :
                   X[i] >= 150 => ~Contains(out.context, D[i])
            /\ \A i \in 1..Min(Len(D), Len(X)) :
                   X[i] < 150 => Contains(out.context, D[i])
            /\ StartsWith(out.full_prompt, system_prompt \o "\n\n" \o out.context \o "\n\n---\n\n")

\* distances 0.3, 1.6, 0.3: the first and the third are kept, in that order
C4_Witness ==
    /\ Done /\ ~out.raised
    /\ ReturnedDists(req.search_results) = <<30, 160, 30>>
    /\ Len(out.context_parts) = 2
    /\ EndsWith(out.context_parts[1], DocText(1))
    /\ EndsWith(out.context_parts[2], DocText(3))

\* C5: the context block is the sentinel exactly when no match survives the
\* filter; it is never empty.
C5_SentinelIffNoSurvivor ==
    (Done /\ ~out.raised) =>
        /\ (out.context = "No highly relevant schemes found in the database for this query.")
              <=> (Len(Surviving) = 0)
        /\ out.context # ""
        /\ StartsWith(out.full_prompt, system_prompt \o "\n\n" \o out.context \o "\n\n---\n\n")

\* every returned match is at or above the cutoff
C5_Witness ==
    /\ Done /\ ~out.raised
    /\ ReturnedDists(req.search_results) = <<150, 160>>
    /\ out.context = Sentinel

\* C6: the prior turns handed to the LLM are the last min(6, len(h)) turns of
\* h, oldest first, contents unchanged, role user kept and any other role
\* mapped to model; the prompt is not among them and is sent as the final turn.
C6_HistoryWindow ==
    (Done /\ ~out.raised) =>
        LET h == req.chat_history.turns
            k == IF Len(h) < 6 THEN Len(h) ELSE 6
            opened == Count(out.calls, {"start_chat"}) = 1
            sent == Count(out.calls, {"generate_content", "send_message"}) = 1
        IN  /\ Len(out.history) = k
            /\ opened <=> k > 0
            /\ \A i \in 1..k :
                  /\ out.history[i].parts = <<h[Len(h) - k + i].content>>
                  /\ out.history[i].role =
                        (IF h[Len(h) - k + i].role = "user" THEN "user" ELSE "model")
                  /\ out.history[i].parts # <<out.full_prompt>>
            /\ sent => /\ out.prompt = out.full_prompt
                       /\ out.calls[Len(out.calls)] \in {"generate_content", "send_message"}

C6_Witness ==
    /\ Done /\ ~out.raised
    /\ Len(req.chat_history.turns) = 7
    /\ out.calls = <<"query", "start_chat", "send_message">>
    /\ Len(out.history) = 6
    /\ out.history[1].parts = <<"m2">>
    /\ out.history[1].role = "model"
    /\ out.prompt = out.full_prompt

\* C7: every request issues exactly one LLM exchange: a single-turn completion
\* with the prompt iff the history window is empty, otherwise one multi-turn
\* session seeded with the whole window and then the prompt as the newest turn;
\* the value returned is the model's reply.
C7_ExactlyOneLlmCall ==
    Done =>
        LET window == IF req.chat_history.given
                      THEN SubSeq(req.chat_history.turns,
                                  Max(1, Len(req.chat_history.turns) - 5),
                                  Len(req.chat_history.turns))
                      ELSE <<>>
            llm_calls == SubSeq(out.calls, 2, Len(out.calls))
        IN  /\ Count(out.calls, {"generate_content", "start_chat"}) = 1
            /\ (Len(window) = 0) <=> (llm_calls = <<"generate_content">>)
            /\ (Len(window) > 0 /\ req.llm.failAt # "start_chat") =>
                  /\ llm_calls = <<"start_chat", "send_message">>
                  /\ Len(out.history) = Len(window)
            /\ req.llm.failAt \in {"none", "text"} => out.prompt = out.full_prompt
            /\ ~LlmRaised => out.result = req.llm.reply

\* C8 as stated: the j-th surviving block carries the header number j.
C8_NumberedAmongSurvivors ==
    (Done /\ ~out.raised) =>
        LET D == ReturnedDocs(req.search_results)
            X == ReturnedDists(req.search_results)
            S == Surviving
        IN  /\ Len(out.context_parts) = Len(S)
            /\ \A j \in 1..Len(S) :
                  out.context_parts[j] = HeaderOf(j, X[S[j]]) \o "\n" \o D[S[j]]

\* C8, amended: the block of a surviving match carries the 1-based position
\* the match had in the list the index returned (before filtering), so the
\* numbers increase but skip the positions of dropped matches; each header is
\* followed by the match's document and blocks are separated by a blank line.
C8_NumberedByReturnedPosition ==
    (Done /\ ~out.raised) =>
        LET D == ReturnedDocs(req.search_results)
            X == ReturnedDists(req.search_results)
            S == Surviving
        IN  /\ Len(out.context_parts) = Len(S)
            /\ \A j \in 1..Len(S) :
                  out.context_parts[j] = HeaderOf(S[j], X[S[j]]) \o "\n" \o D[S[j]]
            /\ Len(S) = 1 => out.context = out.context_parts[1]
            /\ Len(S) > 1 =>
                  /\ StartsWith(out.context, out.context_parts[1] \o "\n\n" \o out.context_parts[2])
                  /\ out.context = Join(out.context_parts, "\n\n")

\* the first returned match is dropped, so the only surviving block is number 2
C8_Witness ==
    /\ Done /\ ~out.raised
    /\ ReturnedDists(req.search_results) = <<160, 30>>
    /\ out.context =
         "--- Relevant Scheme 2 (Relevance: 0.70) ---\nScheme Name: S2\nDepartment: D2"

---------------------------------------------------------------------------
(* Properties of the store and of the chat handler, checked under Spec *)

\* C9: referential integrity: every stored message has the id of a session
\* that is in the sessions table.
C9_ReferentialIntegrity ==
    \A i \in 1..Len(messages) : messages[i].session_id \in DOMAIN sessions

\* C10: the history chat passes for the n-th request on a session is the
\* 2(n-1) turns stored by the earlier requests, oldest first, alternating user
\* query and assistant response, without the n-th query; once the request
\* completes the session holds two more messages, the query then the response.
C10_HistoryIsEarlierExchanges ==
    last.kind = "chat" =>
        LET h == req.chat_history.turns
            stored == ChatHistory(SessionRows(last.session_id)).turns
        IN  /\ Len(h) = 2 * (last.n - 1)
            /\ h = last.before
            /\ \A i \in 1..Len(h) :
                  h[i].role = (IF i % 2 = 1 THEN "user" ELSE "assistant")
            /\ last.completed =>
                  stored = last.before \o <<[role |-> "user", content |-> req.query],
                                            [role |-> "assistant", content |-> out.result]>>

=============================================================================
